---- MODULE Spec2Model ----
(***************************************************************************)
(* The NfcScanner component (session engine) of pro-wallet: the scan /     *)
(* emit / delete handlers, the radio and HCE drivers they call, and the    *)
(* useSecureStorage hook that holds the archive.                           *)
(*                                                                         *)
(* A handler is an async function: it runs from its call to its first      *)
(* await in one step, and from one await to the next in one step.  It      *)
(* reads the React state (isScanning, emittingItem, scannedItems,          *)
(* hceSession) of the render it was created in, so the values it read at   *)
(* its call stay with it over its awaits; isCancelling is a ref and is     *)
(* read fresh.  A driver call that succeeds takes effect in the driver     *)
(* first and resumes the handler in a later step.  The disabled props of   *)
(* the buttons (lines 207 and 244) are left out: a handler may be called   *)
(* in any state, so its own guards decide.                                 *)
(***************************************************************************)
EXTENDS Naturals, Integers, Sequences, FiniteSets, TLC

\* ---------------------------------------------------------------- bounds
MaxHandlers == 2     \* asynchronous calls under way at once
MaxItems == 1        \* tags archived in one behaviour
MaxRecords == 3      \* records of a message given to parseNdefMessage

\* ------------------------------------------------------------- constants
NoAlert == "none"
NoItem == -1         \* emittingItem null
NullItems == <<-1>>  \* the archive value null (nothing stored, nothing set)
NoApp == <<>>        \* no application set on the HCE session
StoredItems == <<0>>      \* what a previous run left in the store

StatusChecking == "Checking NFC availability..."
StatusReady == "Ready to Scan"
StatusDisabled == "NFC is disabled"
StatusUnsupported == "NFC not supported"
StatusCheckError == "Error checking NFC"
StatusInitError == "Initialization Error"
StatusScanning == "Scanning..."
StatusSuccess == "Scan successful!"
StatusNoTag == "No tag found. Try again."
StatusCancelled == "Scan cancelled."
StatusFailed == "Scan failed. Please try again."

TerminalStatuses == {StatusSuccess, StatusNoTag, StatusCancelled, StatusFailed}

AlertCannotScan == "Cannot Scan"
AlertCannotEmit == "Cannot Emit"
AlertHceError == "Error"
AlertEmulationError == "Emulation Error"
AlertNfcDisabled == "NFC Disabled"
AlertNotSupported == "Not Supported"

\* An async handler ends with a rejection that none of its code catches.
UnhandledRejection == "unhandled rejection"

\* What String(ex) of a rejected driver call contains: the two substrings
\* the catch block looks for.
ErrUserCancel == [userCancel |-> TRUE, cancelled |-> FALSE]
ErrCancelled == [userCancel |-> FALSE, cancelled |-> TRUE]
ErrOther == [userCancel |-> FALSE, cancelled |-> FALSE]
DriverErrors == {ErrUserCancel, ErrCancelled, ErrOther}

\* ------------------------------------------------------------ NDEF codec
\* Decimal digits of n as character codes (Date.now().toString()).
RECURSIVE DigitChars(_)
DigitChars(n) ==
    IF n < 10 THEN <<48 + n>> ELSE DigitChars(n \div 10) \o <<48 + (n % 10)>>

\* item.id as a string: the scan's timestamp.
IdString(id) == DigitChars(id)

LangCode == <<101, 110>>     \* "en"

\* Ndef.textRecord(text).payload: status byte, language code, text.
TextRecordPayload(text) == <<Len(LangCode)>> \o LangCode \o text

\* Ndef.text.decodePayload(payload): skip the status byte and the language.
DecodePayload(payload) ==
    LET langLen == payload[1] % 64
    IN  SubSeq(payload, 2 + langLen, Len(payload))

\* NFCTagType4 content that handleEmitItem builds from item.id.
EmitContent(id) == DecodePayload(TextRecordPayload(IdString(id)))

\* ----------------------------------------------------- parseNdefMessage
\* A record as parseNdefMessage reads it: what Ndef.isType finds it to be
\* (well-known text, well-known URI, anything else) and whether the
\* library's decodePayload returns for its payload or throws.
RecordKinds == {"text", "uri", "other"}
Records == [kind : RecordKinds, decodes : BOOLEAN]
Messages == UNION {[1..n -> Records] : n \in 0..MaxRecords}

NoMessageText == "No NDEF message found."

\* rendered before parseNdefMessage is called.
NotRendered == [called |-> FALSE, thrown |-> FALSE, text |-> "", entries |-> <<>>]

\* Lines 284-290: the branch taken for the record, by its type alone.
RecordLine(r) == IF r.kind \in {"text", "uri"} THEN "Decoded" ELSE "Payload"

\* Lines 285, 287: decodePayload throws inside the template literal.
DecodeThrows(r) == r.kind \in {"text", "uri"} /\ ~r.decodes

\* records.forEach (lines 275-291) from record index on: an entry is added
\* per record; an exception leaves forEach and parseNdefMessage at once.
RECURSIVE ForEachRecord(_, _, _)
ForEachRecord(records, index, result) ==
    IF index > Len(records)
      THEN [called |-> TRUE, thrown |-> FALSE, text |-> "", entries |-> result]
      ELSE IF DecodeThrows(records[index])
        THEN [called |-> TRUE, thrown |-> TRUE, text |-> "", entries |-> <<>>]
        ELSE ForEachRecord(records, index + 1,
                 Append(result, [index |-> index,
                                 line |-> RecordLine(records[index])]))

\* parseNdefMessage(ndefMessage) (lines 266-296).
parseNdefMessage(records) ==
    IF Len(records) = 0
      THEN [called |-> TRUE, thrown |-> FALSE, text |-> NoMessageText,
            entries |-> <<>>]
      ELSE ForEachRecord(records, 1, <<>>)

\* ----------------------------------------------------------------- state
VARIABLES
    nfcStatus,      \* useState nfcStatus
    isScanning,     \* useState isScanning
    emittingItem,   \* useState emittingItem: NoItem or an item id
    scannedItems,   \* useSecureStorage value: NullItems or a sequence of ids
    hceSession,     \* useState hceSession: FALSE is null
    isCancelling,   \* useRef isCancelling.current
    alert,          \* what the last step raised, if anything: the title of
                    \* an Alert.alert, or a rejection no handler caught
    loading,        \* useSecureStorage loading
    stored,         \* SecureStore content under 'scannedNfcItems'
    writes,         \* setStorageItemAsync calls that have not settled
    initPc,         \* position of initApp
    checkPc,        \* position of checkNfcSupport
    hceEnabled,     \* HCE driver: channel enabled
    hceApp,         \* HCE driver: application content, NoApp if none
    scans,          \* scan attempts under way (readNdef past line 94)
    stopPending,    \* StopScan handlers whose cancel is at the driver
    stopReturned,   \* StopScan handlers whose cancel resolved, not resumed
    emits,          \* handleEmitItem calls awaiting the driver
    deletes,        \* handleDeleteItem calls awaiting the driver
    now,            \* Date.now() of the most recent scanned item
    lastDone,       \* history: the scan attempt that ended in the last step
    ledger,         \* history: ids archived and ids deleted, while serial
    emitTrace,      \* history: results of the last emit calls run alone
    soloEmit,       \* history: the emit call in flight has run alone so far
    cleanupPc,      \* position of the mount effect's cleanup
    techClaimed,    \* radio driver: the technology requested is held
    ndefMessage,    \* the records parseNdefMessage is called with
    rendered        \* what parseNdefMessage produced for them, if called

vars == <<nfcStatus, isScanning, emittingItem, scannedItems, hceSession,
          isCancelling, alert, loading, stored, writes, initPc, checkPc,
          hceEnabled, hceApp, scans, stopPending, stopReturned,
          emits, deletes, now, lastDone, ledger, emitTrace, soloEmit,
          cleanupPc, techClaimed, ndefMessage, rendered>>

reactVars == <<nfcStatus, isScanning, emittingItem, scannedItems, hceSession>>
initVars == <<initPc, checkPc>>
storeVars == <<loading, stored, writes>>
hceVars == <<hceEnabled, hceApp>>
scanVars == <<scans, stopPending, stopReturned, isCancelling>>
historyVars == <<ledger, emitTrace, soloEmit>>
renderVars == <<ndefMessage, rendered>>

\* scannedItems || []
OrEmpty(v) == IF v = NullItems THEN <<>> ELSE v

Range(s) == {s[k] : k \in DOMAIN s}

\* lastDone when the last step ended no scan attempt.
NoneDone == [stopped |-> FALSE, writes |-> <<>>, cause |-> "none"]

\* ledger.serial: every operation on the archive so far (the initial load,
\* a scan attempt, a deletion) ran to its end before the next one started;
\* the two sets are kept only while that is so.
VoidLedger == [serial |-> FALSE, created |-> {}, deleted |-> {}]

Init ==
    /\ nfcStatus = StatusChecking
    /\ isScanning = FALSE
    /\ emittingItem = NoItem
    /\ scannedItems = NullItems
    /\ hceSession = FALSE
    /\ isCancelling = FALSE
    /\ alert = NoAlert
    /\ loading = TRUE
    /\ stored \in {NullItems, StoredItems}
    /\ writes = <<>>
    /\ initPc = "start"
    /\ checkPc = "none"
    /\ hceEnabled = FALSE
    /\ hceApp = NoApp
    /\ scans = <<>>
    /\ stopPending = 0
    /\ stopReturned = 0
    /\ emits = <<>>
    /\ deletes = <<>>
    /\ now = 0
    /\ lastDone = NoneDone
    /\ ledger = [serial |-> TRUE, created |-> {}, deleted |-> {}]
    /\ emitTrace = <<>>
    /\ soloEmit = FALSE
    /\ cleanupPc = "mounted"
    /\ techClaimed = FALSE
    /\ ndefMessage = <<>>
    /\ rendered = NotRendered

\* --------------------------------------------------------------- helpers
RemoveAt(s, k) == SubSeq(s, 1, k - 1) \o SubSeq(s, k + 1, Len(s))

\* No handler is between its call and its return.
Quiescent ==
    /\ scans = <<>>
    /\ stopPending = 0
    /\ stopReturned = 0
    /\ emits = <<>>
    /\ deletes = <<>>

\* Asynchronous calls under way: handlers between their call and their
\* return, and store writes.  A new handler call is taken while there is
\* room.
InFlight ==
    Len(scans) + stopPending + stopReturned + Len(emits) + Len(deletes)
    + Len(writes)
Room == InFlight < MaxHandlers

\* The component is on screen: its buttons can be pressed.
Mounted == cleanupPc = "mounted"

\* An operation that reads or writes the archive is under way.
ArchiveBusy == loading \/ scans # <<>> \/ deletes # <<>>

\* A step that raises no alert.
NoAlertRaised == alert' = NoAlert

\* History kept by every step that ends no scan attempt.
NoScanEnded == lastDone' = NoneDone

\* History kept by every step of a handler other than handleEmitItem.
NotAnEmitStep == emitTrace' = <<>> /\ soloEmit' = FALSE

\* History: an archive operation starts.
LedgerStart == IF ArchiveBusy THEN VoidLedger ELSE ledger

\* History: ids enter the archive, ids are deleted from it.
LedgerAdd(l, ids) ==
    IF l.serial THEN [l EXCEPT !.created = @ \cup ids] ELSE l
LedgerDelete(l, id) ==
    IF l.serial THEN [l EXCEPT !.deleted = @ \cup {id}] ELSE l

\* ------------------------------------------------- useSecureStorage hook
\* setStoredValue(newValue) (lines 35-41): the in-memory value is replaced
\* at once and setStorageItemAsync is called, not awaited.
setStoredValue(newValue) ==
    /\ scannedItems' = newValue
    /\ writes' = Append(writes, newValue)

\* setStorageItemAsync settles (lines 4-10): the value is written (no
\* caller passes null), or the call rejects and nothing is written.  The
\* calls settle in any order.
setStorageItemAsync(k, ok) ==
    /\ k \in DOMAIN writes
    /\ stored' = IF ok THEN writes[k] ELSE stored
    /\ writes' = RemoveAt(writes, k)
    /\ NoScanEnded
    /\ NoAlertRaised
    /\ UNCHANGED <<cleanupPc, techClaimed, renderVars>>
    /\ UNCHANGED <<reactVars, loading, initVars, hceVars, scanVars, emits,
                   deletes, now, historyVars>>

\* The effect's getItemAsync(key).then(...): a stored value replaces the
\* in-memory one, whatever it is by then.
LoadStored ==
    /\ loading
    /\ loading' = FALSE
    /\ scannedItems' = IF stored # NullItems THEN stored ELSE scannedItems
    /\ ledger' = LedgerAdd(ledger, Range(OrEmpty(stored)))
    /\ NoScanEnded
    /\ NoAlertRaised
    /\ UNCHANGED <<cleanupPc, techClaimed, renderVars>>
    /\ UNCHANGED <<nfcStatus, isScanning, emittingItem, hceSession, stored,
                   writes, initVars, hceVars, scanVars, emits, deletes,
                   now, emitTrace, soloEmit>>

\* getItemAsync rejects: only loading is cleared.
LoadFailed ==
    /\ loading
    /\ loading' = FALSE
    /\ NoScanEnded
    /\ NoAlertRaised
    /\ UNCHANGED <<cleanupPc, techClaimed, renderVars>>
    /\ UNCHANGED <<reactVars, stored, writes, initVars, hceVars, scanVars,
                   emits, deletes, now, historyVars>>

\* ------------------------------------------------------------- initApp
\* NfcManager.start() resolves: checkNfcSupport() is called (not awaited)
\* and runs to its first await; where Platform.OS is 'android',
\* HCESession.getInstance() is awaited next.
InitStarted(os) ==
    /\ initPc = "start"
    /\ checkPc' = "running"
    /\ initPc' = IF os = "android" THEN "getInstance" ELSE "done"
    /\ NoScanEnded
    /\ NoAlertRaised
    /\ UNCHANGED <<cleanupPc, techClaimed, renderVars>>
    /\ UNCHANGED <<reactVars, storeVars, hceVars, scanVars, emits,
                   deletes, now, historyVars>>

\* NfcManager.start() or HCESession.getInstance() rejects.
InitFailed ==
    /\ initPc \in {"start", "getInstance"}
    /\ initPc' = "done"
    /\ nfcStatus' = StatusInitError
    /\ NoScanEnded
    /\ NoAlertRaised
    /\ UNCHANGED <<cleanupPc, techClaimed, renderVars>>
    /\ UNCHANGED <<isScanning, emittingItem, scannedItems, hceSession,
                   storeVars, checkPc, hceVars, scanVars, emits,
                   deletes, now, historyVars>>

\* HCESession.getInstance() resolves: setHceSession(session).
InitHceSession ==
    /\ initPc = "getInstance"
    /\ initPc' = "done"
    /\ hceSession' = TRUE
    /\ NoScanEnded
    /\ NoAlertRaised
    /\ UNCHANGED <<cleanupPc, techClaimed, renderVars>>
    /\ UNCHANGED <<nfcStatus, isScanning, emittingItem, scannedItems,
                   storeVars, checkPc, hceVars, scanVars, emits,
                   deletes, now, historyVars>>

\* ----------------------------------------------------- checkNfcSupport
\* checkNfcSupport settles (lines 48-73): isSupported() and isEnabled()
\* both resolve true, isEnabled() resolves false, isSupported() resolves
\* false, or one of them rejects.
CheckOutcomes == {StatusReady, StatusDisabled, StatusUnsupported,
                  StatusCheckError}

checkNfcSupport(outcome) ==
    /\ checkPc = "running"
    /\ checkPc' = "done"
    /\ nfcStatus' = outcome
    /\ alert' = CASE outcome = StatusDisabled -> AlertNfcDisabled
                  [] outcome = StatusUnsupported -> AlertNotSupported
                  [] OTHER -> NoAlert
    /\ NoScanEnded
    /\ UNCHANGED <<cleanupPc, techClaimed, renderVars>>
    /\ UNCHANGED <<isScanning, emittingItem, scannedItems, hceSession,
                   storeVars, initPc, hceVars, scanVars, emits, deletes,
                   now, historyVars>>

\* ------------------------------------------------------------ readNdef
\* A readNdef without the guard of lines 89-92.
ScanNeverBlocked(emitting) == FALSE

\* Line 89: if (emittingItem) the scan is refused.
ScanBlockedByEmit(emitting) == emitting # NoItem

\* Line 124: the failure counts as a cancellation.
IsCancelSignature(cancelling, err) ==
    cancelling \/ err.userCancel \/ err.cancelled

\* A catch block whose cancellation branch falls through to the failure
\* branch.
CatchWritesFallThrough(cancelling, err) ==
    IF IsCancelSignature(cancelling, err)
      THEN <<StatusCancelled, StatusFailed>>
      ELSE <<StatusFailed>>

\* Lines 120-129: the statuses the catch block sets, in order.
CatchWrites(cancelling, err) ==
    IF IsCancelSignature(cancelling, err)
      THEN <<StatusCancelled>>
      ELSE <<StatusFailed>>

\* Lines 99-119: the statuses the try block sets once getTag() returned.
TagWrites(tagFound) ==
    IF tagFound THEN <<StatusSuccess>> ELSE <<StatusNoTag>>

\* Lines 76-87: the statuses the stop branch sets (none).
StopWrites == <<>>

\* A scan that adds the new item at the end of the archive.
AppendLast(newItem, items) == items \o <<newItem>>

\* Line 113: [newItem, ...(scannedItems || [])]
Prepend(newItem, items) == <<newItem>> \o items

Last(s) == s[Len(s)]

\* The discovery of attempt k is still outstanding: no tag has been found.
Outstanding(k) == scans[k].pc \in {"reqPending", "reqCancelled"}

\* History: a stop is pressed while the attempt sc is under way.
Stopped(sc) == [sc EXCEPT !.stopped = TRUE, !.writes = @ \o StopWrites]

\* readNdef while isScanning (lines 76-80): isCancelling is set and
\* cancelTechnologyRequest() is awaited.
readNdefStop ==
    /\ Mounted
    /\ isScanning
    /\ Room
    /\ isCancelling' = TRUE
    /\ stopPending' = stopPending + 1
    /\ scans' = [k \in DOMAIN scans |-> Stopped(scans[k])]
    /\ nfcStatus' = IF StopWrites = <<>> THEN nfcStatus ELSE Last(StopWrites)
    /\ NotAnEmitStep
    /\ NoScanEnded
    /\ NoAlertRaised
    /\ UNCHANGED <<cleanupPc, techClaimed, renderVars>>
    /\ UNCHANGED <<isScanning, emittingItem, scannedItems, hceSession, storeVars, initVars, hceVars, stopReturned, emits, deletes, now, ledger>>

\* The driver completes cancelTechnologyRequest(): every outstanding
\* request is rejected by it; the handlers resume later.
CancelResolved ==
    /\ stopPending > 0
    /\ stopPending' = stopPending - 1
    /\ stopReturned' = stopReturned + 1
    /\ scans' = [k \in DOMAIN scans |->
                   IF scans[k].pc = "reqPending"
                     THEN [scans[k] EXCEPT !.pc = "reqCancelled"]
                     ELSE scans[k]]
    /\ NoScanEnded
    /\ NoAlertRaised
    /\ techClaimed' = FALSE
    /\ UNCHANGED <<cleanupPc, renderVars>>
    /\ UNCHANGED <<reactVars, isCancelling, storeVars, initVars,
                   hceVars, emits, deletes, now, historyVars>>

\* The stop branch resumes after its await (lines 82-86).
StopResumed ==
    /\ stopReturned > 0
    /\ stopReturned' = stopReturned - 1
    /\ isCancelling' = FALSE
    /\ isScanning' = FALSE
    /\ NotAnEmitStep
    /\ NoScanEnded
    /\ NoAlertRaised
    /\ UNCHANGED <<cleanupPc, techClaimed, renderVars>>
    /\ UNCHANGED <<nfcStatus, emittingItem, scannedItems, hceSession, storeVars, initVars, hceVars, scans, stopPending,
                   emits, deletes, now, ledger>>

\* cancelTechnologyRequest() rejects: the error is swallowed (line 80) and
\* the branch goes on as above; the requests stay outstanding.
CancelRejected ==
    /\ stopPending > 0
    /\ stopPending' = stopPending - 1
    /\ isCancelling' = FALSE
    /\ isScanning' = FALSE
    /\ NotAnEmitStep
    /\ NoScanEnded
    /\ NoAlertRaised
    /\ UNCHANGED <<cleanupPc, techClaimed, renderVars>>
    /\ UNCHANGED <<nfcStatus, emittingItem, scannedItems, hceSession, storeVars, initVars, hceVars, scans, stopReturned,
                   emits, deletes, now, ledger>>

\* readNdef while emitting (lines 89-92).
readNdefRejected ==
    /\ Mounted
    /\ ~isScanning
    /\ ScanBlockedByEmit(emittingItem)
    /\ alert' = AlertCannotScan
    /\ NotAnEmitStep
    /\ NoScanEnded
    /\ UNCHANGED <<cleanupPc, techClaimed, renderVars>>
    /\ UNCHANGED <<reactVars, storeVars, initVars, hceVars, scanVars, emits,
                   deletes, now, ledger>>

\* readNdef otherwise (lines 94-97): a scan attempt starts and awaits
\* requestTechnology(NfcTech.Ndef).
readNdefStart ==
    /\ Mounted
    /\ ~isScanning
    /\ ~ScanBlockedByEmit(emittingItem)
    /\ Room
    /\ isScanning' = TRUE
    /\ nfcStatus' = StatusScanning
    /\ scans' = Append(scans,
                  [pc |-> "reqPending", items |-> OrEmpty(scannedItems),
                   stopped |-> FALSE, writes |-> <<>>])
    /\ ledger' = LedgerStart
    /\ NotAnEmitStep
    /\ NoScanEnded
    /\ NoAlertRaised
    /\ UNCHANGED <<cleanupPc, techClaimed, renderVars>>
    /\ UNCHANGED <<emittingItem, scannedItems, hceSession, isCancelling,
                   storeVars, initVars, hceVars, stopPending,
                   stopReturned, emits, deletes, now>>

\* requestTechnology() resolves; getTag() is awaited (line 98).
RequestResolved(k) ==
    /\ k \in DOMAIN scans
    /\ scans[k].pc = "reqPending"
    /\ scans' = [scans EXCEPT ![k].pc = "getTag"]
    /\ NotAnEmitStep
    /\ NoScanEnded
    /\ NoAlertRaised
    /\ techClaimed' = TRUE
    /\ UNCHANGED <<cleanupPc, renderVars>>
    /\ UNCHANGED <<reactVars, isCancelling, storeVars, initVars,
                   hceVars, stopPending, stopReturned, emits,
                   deletes, now, ledger>>

\* History: why a rejected attempt ended: its request was rejected by a
\* cancel, or the driver failed with a cancellation's text or another one,
\* in requestTechnology() or in getTag().
RejectCause(pc, err) ==
    CASE pc = "reqCancelled" -> "cancel"
      [] err.userCancel \/ err.cancelled -> "driverCancel"
      [] pc = "reqPending" -> "requestError"
      [] OTHER -> "getTagError"

\* The catch block of attempt k without the finally block of lines
\* 130-132.
ScanCaughtNoFinally(k, err) ==
    /\ scans' = RemoveAt(scans, k)
    /\ lastDone' = [stopped |-> scans[k].stopped,
                    writes |-> scans[k].writes
                                 \o CatchWrites(isCancelling, err),
                    cause |-> RejectCause(scans[k].pc, err)]
    /\ nfcStatus' = Last(CatchWrites(isCancelling, err))
    /\ isScanning' = isScanning
    /\ NotAnEmitStep
    /\ NoAlertRaised
    /\ UNCHANGED <<cleanupPc, techClaimed, renderVars>>
    /\ UNCHANGED <<emittingItem, scannedItems, hceSession, isCancelling,
                   storeVars, initVars, hceVars, stopPending,
                   stopReturned, emits, deletes, now, ledger>>

\* catch and finally (lines 120-132) of attempt k for the error err.
ScanCaught(k, err) ==
    /\ scans' = RemoveAt(scans, k)
    /\ lastDone' = [stopped |-> scans[k].stopped,
                    writes |-> scans[k].writes
                                 \o CatchWrites(isCancelling, err),
                    cause |-> RejectCause(scans[k].pc, err)]
    /\ nfcStatus' = Last(CatchWrites(isCancelling, err))
    /\ isScanning' = FALSE
    /\ NotAnEmitStep
    /\ NoAlertRaised
    /\ UNCHANGED <<cleanupPc, techClaimed, renderVars>>
    /\ UNCHANGED <<emittingItem, scannedItems, hceSession, isCancelling,
                   storeVars, initVars, hceVars, stopPending,
                   stopReturned, emits, deletes, now, ledger>>

\* requestTechnology() rejects: by the driver itself, or by a cancel.
RequestRejected(k, err) ==
    /\ k \in DOMAIN scans
    /\ Outstanding(k)
    /\ ScanCaught(k, err)

\* getTag() rejects.
GetTagRejected(k, err) ==
    /\ k \in DOMAIN scans
    /\ scans[k].pc = "getTag"
    /\ ScanCaught(k, err)

\* getTag() returns (lines 99-119, 130-132): a tag is archived, or none.
GetTagReturned(k, tagFound) ==
    /\ k \in DOMAIN scans
    /\ scans[k].pc = "getTag"
    /\ tagFound => now < MaxItems
    /\ scans' = RemoveAt(scans, k)
    /\ lastDone' = [stopped |-> scans[k].stopped,
                    writes |-> scans[k].writes \o TagWrites(tagFound),
                    cause |-> IF tagFound THEN "tag" ELSE "noTag"]
    /\ nfcStatus' = Last(TagWrites(tagFound))
    /\ IF tagFound
         THEN /\ now' = now + 1
              /\ setStoredValue(Prepend(now + 1, scans[k].items))
              /\ ledger' = LedgerAdd(ledger, {now + 1})
         ELSE UNCHANGED <<now, scannedItems, writes, ledger>>
    /\ isScanning' = FALSE
    /\ NotAnEmitStep
    /\ NoAlertRaised
    /\ UNCHANGED <<cleanupPc, techClaimed, renderVars>>
    /\ UNCHANGED <<emittingItem, hceSession, isCancelling, loading, stored,
                   initVars, hceVars, stopPending, stopReturned, emits,
                   deletes>>

\* ------------------------------------------------------ handleEmitItem
\* The items the list renders: a handler is called on one of them.
Listed == Range(OrEmpty(scannedItems))

\* Line 150: if (isScanning) the emission is refused.
EmitBlockedByScan(scanning) == scanning

\* A handleEmitItem without the toggle of lines 156-160.
NeverToggleOff(emitting, id) == FALSE

\* Line 156: the item is the one being emitted, so the call toggles it off.
IsToggleOff(emitting, id) == emitting = id

\* History: the results of up to three emit calls in a row on one item,
\* each run alone, the first of them called with nothing emitted.
Remember(trace, entry) ==
    IF trace # <<>> /\ Len(trace) < 3 /\ entry.item = trace[1].item
      THEN Append(trace, entry)
      ELSE IF entry.before = NoItem THEN <<entry>> ELSE <<>>

\* handleEmitItem without a session (lines 145-148).
EmitNoSession ==
    /\ Mounted
    /\ ~hceSession
    /\ Listed # {}
    /\ alert' = AlertHceError
    /\ NotAnEmitStep
    /\ NoScanEnded
    /\ UNCHANGED <<cleanupPc, techClaimed, renderVars>>
    /\ UNCHANGED <<reactVars, storeVars, initVars, hceVars, scanVars, emits,
                   deletes, now, ledger>>

\* handleEmitItem while scanning (lines 150-153).
EmitRejected ==
    /\ Mounted
    /\ hceSession
    /\ Listed # {}
    /\ EmitBlockedByScan(isScanning)
    /\ alert' = AlertCannotEmit
    /\ NotAnEmitStep
    /\ NoScanEnded
    /\ UNCHANGED <<cleanupPc, techClaimed, renderVars>>
    /\ UNCHANGED <<reactVars, storeVars, initVars, hceVars, scanVars, emits,
                   deletes, now, ledger>>

\* handleEmitItem(item) past its guards (lines 156-180): setEnabled(false)
\* is awaited for the emitted item, setApplication(tag) for any other.
EmitCalled(item) ==
    /\ Mounted
    /\ hceSession
    /\ item \in Listed
    /\ ~EmitBlockedByScan(isScanning)
    /\ Room
    /\ emits' = Append(emits,
                  [item |-> item, before |-> emittingItem,
                   pc |-> IF IsToggleOff(emittingItem, item)
                            THEN "disableCall" ELSE "setAppCall"])
    /\ soloEmit' = Quiescent
    /\ emitTrace' = IF Quiescent THEN emitTrace ELSE <<>>
    /\ NoScanEnded
    /\ NoAlertRaised
    /\ UNCHANGED <<cleanupPc, techClaimed, renderVars>>
    /\ UNCHANGED <<reactVars, storeVars, initVars, hceVars, scanVars,
                   deletes, now, ledger>>

\* The driver completes setApplication(tag); the handler goes on to await
\* setEnabled(true) (lines 180-181).
HceSetApplication(k) ==
    /\ k \in DOMAIN emits
    /\ emits[k].pc = "setAppCall"
    /\ hceApp' = EmitContent(emits[k].item)
    /\ emits' = [emits EXCEPT ![k].pc = "enableCall"]
    /\ NoScanEnded
    /\ NoAlertRaised
    /\ UNCHANGED <<cleanupPc, techClaimed, renderVars>>
    /\ UNCHANGED <<reactVars, storeVars, initVars, hceEnabled,
                   scanVars, deletes, now, historyVars>>

\* The driver completes a handleEmitItem's setEnabled(true) or
\* setEnabled(false); the handler resumes later.
HceSetEnabled(k) ==
    /\ k \in DOMAIN emits
    /\ emits[k].pc \in {"enableCall", "disableCall"}
    /\ hceEnabled' = (emits[k].pc = "enableCall")
    /\ emits' = [emits EXCEPT ![k].pc =
                   IF @ = "enableCall" THEN "enableOk" ELSE "disableOk"]
    /\ NoScanEnded
    /\ NoAlertRaised
    /\ UNCHANGED <<cleanupPc, techClaimed, renderVars>>
    /\ UNCHANGED <<reactVars, storeVars, initVars, hceApp, scanVars,
                   deletes, now, historyVars>>

\* The handler resumes after setEnabled: setEmittingItem(item.id) on line
\* 182, setEmittingItem(null) on line 158.
EmitResumed(k) ==
    /\ k \in DOMAIN emits
    /\ emits[k].pc \in {"enableOk", "disableOk"}
    /\ emittingItem' = IF emits[k].pc = "enableOk" THEN emits[k].item
                                                     ELSE NoItem
    /\ emits' = RemoveAt(emits, k)
    /\ soloEmit' = FALSE
    /\ emitTrace' =
         IF soloEmit
           THEN Remember(emitTrace,
                  [item |-> emits[k].item, before |-> emits[k].before,
                   emitting |-> emittingItem', enabled |-> hceEnabled,
                   app |-> hceApp])
           ELSE <<>>
    /\ NoScanEnded
    /\ NoAlertRaised
    /\ UNCHANGED <<cleanupPc, techClaimed, renderVars>>
    /\ UNCHANGED <<nfcStatus, isScanning, scannedItems, hceSession, storeVars, initVars, hceVars, scanVars, deletes, now,
                   ledger>>

\* setApplication or setEnabled(true) rejects: caught on lines 183-186.
EmitFailed(k) ==
    /\ k \in DOMAIN emits
    /\ emits[k].pc \in {"setAppCall", "enableCall"}
    /\ alert' = AlertEmulationError
    /\ emits' = RemoveAt(emits, k)
    /\ NotAnEmitStep
    /\ NoScanEnded
    /\ UNCHANGED <<cleanupPc, techClaimed, renderVars>>
    /\ UNCHANGED <<reactVars, storeVars, initVars, hceVars, scanVars,
                   deletes, now, ledger>>

\* setEnabled(false) of the toggle rejects: nothing catches it, the
\* handler ends there (line 157).
EmitDisableFailed(k) ==
    /\ k \in DOMAIN emits
    /\ emits[k].pc = "disableCall"
    /\ emits' = RemoveAt(emits, k)
    /\ NotAnEmitStep
    /\ NoScanEnded
    /\ alert' = UnhandledRejection
    /\ UNCHANGED <<cleanupPc, techClaimed, renderVars>>
    /\ UNCHANGED <<reactVars, storeVars, initVars, hceVars, scanVars,
                   deletes, now, ledger>>

\* ---------------------------------------------------- handleDeleteItem
\* Line 140: (scannedItems || []).filter(item => item.id !== id)
RemoveById(items, id) == SelectSeq(items, LAMBDA x : x # id)

\* Line 136: the item is the one being emitted.
IsActive(emitting, id) == emitting = id

\* handleDeleteItem(id) of an item that is not emitted (lines 140-141).
DeleteCalled(id) ==
    /\ Mounted
    /\ id \in Listed
    /\ ~IsActive(emittingItem, id)
    /\ setStoredValue(RemoveById(OrEmpty(scannedItems), id))
    /\ ledger' = LedgerDelete(LedgerStart, id)
    /\ NotAnEmitStep
    /\ NoScanEnded
    /\ NoAlertRaised
    /\ UNCHANGED <<cleanupPc, techClaimed, renderVars>>
    /\ UNCHANGED <<nfcStatus, isScanning, emittingItem, hceSession, loading,
                   stored, initVars, hceVars, scanVars, emits, deletes, now>>

\* handleDeleteItem(id) of the emitted item (lines 136-137):
\* setEnabled(false) is awaited.
DeleteActiveCalled(id) ==
    /\ Mounted
    /\ id \in Listed
    /\ IsActive(emittingItem, id)
    /\ Room
    /\ deletes' = Append(deletes,
                    [id |-> id, items |-> OrEmpty(scannedItems),
                     pc |-> "disableCall"])
    /\ ledger' = LedgerStart
    /\ NotAnEmitStep
    /\ NoScanEnded
    /\ NoAlertRaised
    /\ UNCHANGED <<cleanupPc, techClaimed, renderVars>>
    /\ UNCHANGED <<reactVars, storeVars, initVars, hceVars, scanVars,
                   emits, now>>

\* The driver completes a handleDeleteItem's setEnabled(false).
HceDisableForDelete(k) ==
    /\ k \in DOMAIN deletes
    /\ deletes[k].pc = "disableCall"
    /\ hceEnabled' = FALSE
    /\ deletes' = [deletes EXCEPT ![k].pc = "disableOk"]
    /\ NoScanEnded
    /\ NoAlertRaised
    /\ UNCHANGED <<cleanupPc, techClaimed, renderVars>>
    /\ UNCHANGED <<reactVars, storeVars, initVars, hceApp, scanVars,
                   emits, now, historyVars>>

\* The handler resumes (lines 138-141): the item leaves the list the
\* handler was called with.
DeleteResumed(k) ==
    /\ k \in DOMAIN deletes
    /\ deletes[k].pc = "disableOk"
    /\ emittingItem' = NoItem
    /\ setStoredValue(RemoveById(deletes[k].items, deletes[k].id))
    /\ ledger' = LedgerDelete(ledger, deletes[k].id)
    /\ deletes' = RemoveAt(deletes, k)
    /\ NotAnEmitStep
    /\ NoScanEnded
    /\ NoAlertRaised
    /\ UNCHANGED <<cleanupPc, techClaimed, renderVars>>
    /\ UNCHANGED <<nfcStatus, isScanning, hceSession, loading, stored,
                   initVars, hceVars, scanVars, emits, now>>

\* setEnabled(false) rejects: nothing catches it, nothing is deleted.
DeleteDisableFailed(k) ==
    /\ k \in DOMAIN deletes
    /\ deletes[k].pc = "disableCall"
    /\ deletes' = RemoveAt(deletes, k)
    /\ NotAnEmitStep
    /\ NoScanEnded
    /\ alert' = UnhandledRejection
    /\ UNCHANGED <<cleanupPc, techClaimed, renderVars>>
    /\ UNCHANGED <<reactVars, storeVars, initVars, hceVars, scanVars,
                   emits, now, ledger>>

\* ------------------------------------------------- the effect's cleanup
\* hceSession as the cleanup reads it (line 44): the effect has no
\* dependencies (line 46), so its cleanup is the closure of the first
\* render, where hceSession is the initial null (line 24).
CleanupSession == FALSE

\* The cleanup runs (lines 42-45): cancelTechnologyRequest() is called,
\* its rejection caught; setEnabled(false) is called on the session the
\* closure holds, if it holds one.
Cleanup ==
    /\ Mounted
    /\ cleanupPc' = "cancelCall"
    /\ hceEnabled' = IF CleanupSession THEN FALSE ELSE hceEnabled
    /\ NotAnEmitStep
    /\ NoScanEnded
    /\ NoAlertRaised
    /\ UNCHANGED <<reactVars, storeVars, initPc, checkPc, hceApp, scanVars,
                   techClaimed, emits, deletes, now, ledger, renderVars>>

\* The driver completes the cleanup's cancelTechnologyRequest(): the
\* technology is released and every outstanding request is rejected; or
\* the call rejects, which .catch(() => 0) swallows.
CleanupCancel(ok) ==
    /\ cleanupPc = "cancelCall"
    /\ cleanupPc' = IF ok THEN "done" ELSE "cancelFailed"
    /\ techClaimed' = IF ok THEN FALSE ELSE techClaimed
    /\ scans' = [k \in DOMAIN scans |->
                   IF ok /\ scans[k].pc = "reqPending"
                     THEN [scans[k] EXCEPT !.pc = "reqCancelled"]
                     ELSE scans[k]]
    /\ NotAnEmitStep
    /\ NoScanEnded
    /\ NoAlertRaised
    /\ UNCHANGED <<reactVars, storeVars, initPc, checkPc, hceVars,
                   stopPending, stopReturned, isCancelling, emits, deletes,
                   now, ledger, renderVars>>

\* ------------------------------------------------------------ rendering
\* renderItem calls parseNdefMessage on an item's records (line 198).
Render ==
    /\ ~rendered.called
    /\ rendered' = parseNdefMessage(ndefMessage)
    /\ NotAnEmitStep
    /\ NoScanEnded
    /\ NoAlertRaised
    /\ UNCHANGED <<reactVars, storeVars, initPc, checkPc, hceVars, scanVars,
                   techClaimed, cleanupPc, emits, deletes, now, ledger,
                   ndefMessage>>

\* ----------------------------------------------------- specification
Mount ==
    \/ LoadStored
    \/ LoadFailed
    \/ \E os \in {"android", "ios"} : InitStarted(os)
    \/ InitFailed
    \/ InitHceSession
    \/ \E o \in CheckOutcomes : checkNfcSupport(o)

StoreSteps ==
    \E k \in DOMAIN writes, ok \in BOOLEAN : setStorageItemAsync(k, ok)

ScanSteps ==
    \/ readNdefStop
    \/ CancelResolved
    \/ StopResumed
    \/ CancelRejected
    \/ readNdefStart
    \/ \E k \in DOMAIN scans : RequestResolved(k)
    \/ \E k \in DOMAIN scans, err \in DriverErrors : RequestRejected(k, err)
    \/ \E k \in DOMAIN scans, err \in DriverErrors : GetTagRejected(k, err)
    \/ \E k \in DOMAIN scans, t \in BOOLEAN : GetTagReturned(k, t)

EmitSteps ==
    \/ \E item \in Listed : EmitCalled(item)
    \/ \E k \in DOMAIN emits : HceSetApplication(k)
    \/ \E k \in DOMAIN emits : HceSetEnabled(k)
    \/ \E k \in DOMAIN emits : EmitResumed(k)
    \/ \E k \in DOMAIN emits : EmitFailed(k)
    \/ \E k \in DOMAIN emits : EmitDisableFailed(k)

Refusals ==
    \/ readNdefRejected
    \/ EmitRejected

CleanupSteps ==
    \/ Cleanup
    \/ \E ok \in BOOLEAN : CleanupCancel(ok)

DeleteSteps ==
    \/ \E id \in Listed : DeleteCalled(id)
    \/ \E id \in Listed : DeleteActiveCalled(id)
    \/ \E k \in DOMAIN deletes : HceDisableForDelete(k)
    \/ \E k \in DOMAIN deletes : DeleteResumed(k)
    \/ \E k \in DOMAIN deletes : DeleteDisableFailed(k)

\* The component from its first render on.
Next ==
    \/ Mount
    \/ StoreSteps
    \/ ScanSteps
    \/ EmitSteps
    \/ Refusals
    \/ EmitNoSession
    \/ DeleteSteps
    \/ CleanupSteps

Spec == Init /\ [][Next]_vars

\* A state Spec reaches once initApp and checkNfcSupport have settled on
\* android: the radio is ready and the HCE session is set.
Settled ==
    /\ nfcStatus = StatusReady
    /\ isScanning = FALSE
    /\ emittingItem = NoItem
    /\ hceSession = TRUE
    /\ isCancelling = FALSE
    /\ alert = NoAlert
    /\ stored = StoredItems
    /\ writes = <<>>
    /\ initPc = "done"
    /\ checkPc = "done"
    /\ hceEnabled = FALSE
    /\ hceApp = NoApp
    /\ scans = <<>>
    /\ stopPending = 0
    /\ stopReturned = 0
    /\ emits = <<>>
    /\ deletes = <<>>
    /\ now = 0
    /\ lastDone = NoneDone
    /\ emitTrace = <<>>
    /\ soloEmit = FALSE
    /\ cleanupPc = "mounted"
    /\ techClaimed = FALSE
    /\ rendered = NotRendered

\* Settled, the stored archive loaded; the archive's history is not kept.
Ready ==
    /\ Settled
    /\ loading = FALSE
    /\ scannedItems = StoredItems
    /\ ledger = VoidLedger
    /\ ndefMessage = <<>>

\* Settled, the stored archive still loading.
ReadyLoading ==
    /\ Settled
    /\ loading = TRUE
    /\ scannedItems = NullItems
    /\ ledger = [serial |-> TRUE, created |-> {}, deleted |-> {}]
    /\ ndefMessage = <<>>

\* The scan button alone, from Ready.
SpecScan == Ready /\ [][ScanSteps \/ StoreSteps]_vars

\* The emit and delete buttons alone, from Ready.
SpecEmit == Ready /\ [][EmitSteps \/ DeleteSteps \/ StoreSteps]_vars

\* The scan and emit buttons, from Ready.
SpecSession ==
    Ready /\ [][ScanSteps \/ EmitSteps \/ Refusals \/ StoreSteps]_vars

\* A scan left to run to its end: no stop, no driver failure.
ScanToEnd ==
    \/ readNdefStart
    \/ \E k \in DOMAIN scans : RequestResolved(k)
    \/ \E k \in DOMAIN scans, t \in BOOLEAN : GetTagReturned(k, t)

\* The initial load, scans left to run to their end and deletions of
\* items that are not emitted, from ReadyLoading.
SpecArchive ==
    ReadyLoading /\ [][LoadStored \/ LoadFailed \/ StoreSteps \/ ScanToEnd
                         \/ \E id \in Listed : DeleteCalled(id)]_vars

\* The scan and emit buttons and the cleanup, from Ready.
SpecTeardown ==
    Ready /\ [][ScanSteps \/ EmitSteps \/ StoreSteps \/ CleanupSteps]_vars

\* Ready, with an item's records to render.
ReadyToRender ==
    /\ Settled
    /\ loading = FALSE
    /\ scannedItems = StoredItems
    /\ ledger = VoidLedger
    /\ ndefMessage \in Messages

\* parseNdefMessage on every message of at most MaxRecords records.
SpecRender == ReadyToRender /\ [][Render]_vars

\* The mount and the scan button, from the first render.
SpecMount == Init /\ [][Mount \/ ScanSteps \/ StoreSteps]_vars

\* The driver settles every call made to it, and a handler whose await
\* has settled resumes.
DriverSettles ==
    /\ WF_vars(CancelResolved \/ CancelRejected)
    /\ WF_vars(StopResumed)
    /\ WF_vars(\E k \in DOMAIN scans, err \in DriverErrors :
                  RequestResolved(k) \/ RequestRejected(k, err))
    /\ WF_vars(\E k \in DOMAIN scans, err \in DriverErrors, t \in BOOLEAN :
                  GetTagReturned(k, t) \/ GetTagRejected(k, err))

\* The scan button alone, from Ready, with a driver that settles.
SpecScanFair == SpecScan /\ DriverSettles

\* Scans left to run to their end and deletions of items that are not
\* emitted, from Ready.
SpecScanDelete ==
    Ready /\ [][StoreSteps \/ ScanToEnd
                  \/ \E id \in Listed : DeleteCalled(id)]_vars

\* The initial load, scans left to run to their end and deletions of
\* items that are not emitted, from ReadyLoading, with a store in which
\* every write succeeds.
SpecStore ==
    ReadyLoading /\ [][LoadStored \/ LoadFailed \/ ScanToEnd
                         \/ (\E k \in DOMAIN writes :
                                setStorageItemAsync(k, TRUE))
                         \/ \E id \in Listed : DeleteCalled(id)]_vars

\* ---------------------------------------------------------------- claims
\* C1: scanning and emitting are never both active: isScanning is never
\* true while emittingItem is non-null.
C1_MutualExclusion == ~(isScanning /\ emittingItem # NoItem)

\* C2: a refused call changes nothing.  No handleEmitItem call taken while
\* isScanning issues an HCE call, no readNdef call taken while an item is
\* emitted (and isScanning is false) issues a radio request, and the step
\* that raises 'Cannot Scan' or 'Cannot Emit' leaves isScanning,
\* emittingItem, the archive, the status and both drivers as they were.
C2_RefusalChangesNothing ==
    [][ /\ (isScanning /\ hceSession) => Len(emits') <= Len(emits)
        /\ (~isScanning /\ emittingItem # NoItem) => Len(scans') <= Len(scans)
        /\ alert' \in {AlertCannotScan, AlertCannotEmit} =>
             UNCHANGED <<nfcStatus, isScanning, emittingItem, scannedItems,
                         isCancelling, scans, stopPending, stopReturned,
                         emits, deletes, hceEnabled, hceApp>>
      ]_vars

C2_Witness == alert = AlertCannotScan /\ emittingItem # NoItem /\ ~isScanning

\* C3: a scan attempt that an explicit StopScan stopped while its
\* discovery was outstanding, and whose request the cancel rejected, ends
\* with 'Scan cancelled.', whenever the rejection is delivered and
\* whatever its text.
C3_CancelReported ==
    (lastDone.stopped /\ lastDone.cause = "cancel")
        => lastDone.writes = <<StatusCancelled>>

\* C4: with no StopScan pressed during the attempt, getTag() returning
\* null ends it with 'No tag found. Try again.' and a driver failure whose
\* text is not a cancellation's ends it with 'Scan failed. Please try
\* again.'; the three statuses are three values.
C4_OutcomeClasses ==
    /\ (~lastDone.stopped /\ lastDone.cause = "noTag")
          => lastDone.writes = <<StatusNoTag>>
    /\ (~lastDone.stopped /\ lastDone.cause \in {"requestError", "getTagError"})
          => lastDone.writes = <<StatusFailed>>
    /\ Cardinality({StatusCancelled, StatusFailed, StatusNoTag}) = 3

\* C5: a scan attempt sets a terminal status at most once: none while it
\* is under way (a StopScan sets none), one when it ends.
C5_OneTerminalStatus ==
    /\ \A k \in DOMAIN scans : scans[k].writes = <<>>
    /\ Len(lastDone.writes) <= 1
    /\ Range(lastDone.writes) \subseteq TerminalStatuses

C5_Witness ==
    lastDone.stopped /\ lastDone.cause = "cancel" /\ Len(lastDone.writes) = 1

\* C6: at most one requestTechnology call is outstanding at the driver.
C6_SingleRequest ==
    Cardinality({k \in DOMAIN scans : scans[k].pc = "reqPending"}) <= 1

\* C7: handleEmitItem run alone three times in a row on one item, from
\* Idle and with no driver failure: the second call ends in Idle with the
\* channel disabled, the third ends emitting the item with the channel
\* enabled and the application the first call had set.
C7_EmitToggle ==
    /\ Len(emitTrace) >= 2 =>
         /\ emitTrace[2].emitting = NoItem
         /\ ~emitTrace[2].enabled
    /\ Len(emitTrace) = 3 =>
         /\ emitTrace[3].emitting = emitTrace[3].item
         /\ emitTrace[3].enabled
         /\ emitTrace[3].app = emitTrace[1].app
         /\ emitTrace[1].emitting = emitTrace[1].item

C7_Witness == Len(emitTrace) = 3

\* C8: a handleEmitItem(other) called while another item is emitted has
\* disabled the channel, and the mode has passed through Idle, by the time
\* it asks for the channel to be enabled with the other item's payload.
C8_SwitchDisablesFirst ==
    \A k \in DOMAIN emits :
        (/\ emits[k].before # NoItem
         /\ emits[k].before # emits[k].item
         /\ emits[k].pc = "enableCall"
         /\ Len(emits) = 1 /\ deletes = <<>>)
            => (~hceEnabled /\ emittingItem = NoItem)

\* C9: handleDeleteItem of the emitted item removes it only after its
\* setEnabled(false) has completed, and when it ends nothing is emitted,
\* the channel is disabled and the item is not in the archive;
\* handleDeleteItem of another item leaves emittingItem and the channel as
\* they were.
C9_DeleteActive ==
    [][ /\ \A k \in DOMAIN deletes :
             /\ DeleteResumed(k) =>
                  /\ emittingItem' = NoItem
                  /\ ~hceEnabled'
                  /\ deletes[k].id \notin Range(OrEmpty(scannedItems'))
             /\ (deletes[k].pc = "disableCall" /\ deletes' = RemoveAt(deletes, k))
                  => UNCHANGED scannedItems
        /\ \A id \in Listed :
             DeleteCalled(id) => UNCHANGED <<emittingItem, hceEnabled, hceApp>>
      ]_vars

\* The ids of the set S, largest (most recent) first.
RECURSIVE Descending(_)
Descending(S) ==
    IF S = {} THEN <<>>
    ELSE LET m == CHOOSE x \in S : \A y \in S : y <= x
         IN  <<m>> \o Descending(S \ {m})

C11_TeardownReleases ==
    (cleanupPc = "done" /\ emits = <<>> /\ deletes = <<>>) =>
        /\ ~techClaimed
        /\ \A k \in DOMAIN scans : scans[k].pc # "reqPending"
        /\ ~hceEnabled

\* C12: parseNdefMessage returns for every message, with one entry per
\* record in order; a text or URI record whose payload does not decode is
\* rendered with the hex payload line, and every other record as its type
\* alone decides.
C12_MalformedRecordIsolated ==
    (rendered.called /\ ndefMessage # <<>>) =>
        /\ ~rendered.thrown
        /\ Len(rendered.entries) = Len(ndefMessage)
        /\ \A i \in DOMAIN ndefMessage :
              rendered.entries[i] =
                  [index |-> i,
                   line |-> IF DecodeThrows(ndefMessage[i])
                              THEN "Payload"
                              ELSE RecordLine(ndefMessage[i])]

\* C13: once checkNfcSupport has reported 'NFC not supported' or 'NFC is
\* disabled', a readNdef call starts nothing: isScanning stays false and
\* no requestTechnology call is issued.
C13_NoRadioNoScan ==
    [][ (/\ checkPc = "done"
         /\ nfcStatus \in {StatusUnsupported, StatusDisabled}
         /\ ~isScanning)
            => (~isScanning' /\ Len(scans') <= Len(scans)) ]_vars

\* C14: no handler ends with a rejection of a driver call that its code
\* does not catch.
C14_NoFailureEscapes == alert # UnhandledRejection

\* C15: whenever isScanning is false and no handler is between its call
\* and its return, the radio holds no technology and has no request
\* outstanding; in particular after a scan that found a tag.
C15_RadioReleased ==
    (~isScanning /\ Quiescent) =>
        /\ ~techClaimed
        /\ \A k \in DOMAIN scans : scans[k].pc # "reqPending"

\* C16: with a driver that settles every call, every state in which
\* isScanning is true is followed by one in which it is false.
C16_ScanEndsIdle == isScanning ~> ~isScanning

C16_Witness ==
    /\ ~isScanning
    /\ lastDone.cause \in {"requestError", "getTagError"}
    /\ lastDone.writes = <<StatusFailed>>

\* C17: with no handleEmitItem and no handleDeleteItem under way, an item
\* is emitted exactly when the HCE channel is enabled, and the channel's
\* application is then the text tag built from that item's id.
C17_ModeAgreesWithChannel ==
    (emits = <<>> /\ deletes = <<>>) =>
        /\ (emittingItem # NoItem) <=> hceEnabled
        /\ emittingItem # NoItem => hceApp = EmitContent(emittingItem)

\* C18: the emitted item is always an item of the archive, so some listed
\* item can always toggle the emission off.
C18_NoDanglingEmission == emittingItem # NoItem => emittingItem \in Listed

\* C19: the step in which a scan archives its tag makes the archive the
\* new item followed by the archive as it is in that step, and no item
\* other than a scan's new one ever enters the archive (a deleted item
\* does not come back).
C19_NoLostUpdate ==
    [][ /\ lastDone'.cause = "tag" =>
              scannedItems' = Prepend(now', OrEmpty(scannedItems))
        /\ \A id \in Range(OrEmpty(scannedItems')) :
              id \in Listed \/ (id = now' /\ now' # now)
      ]_vars

\* C20: the in-memory archive is authoritative and the store converges.
\* Once setStoredValue has been called, no step other than a
\* setStoredValue call (the only step that adds a pending write) changes
\* the in-memory value while the initial load is outstanding; and when the
\* load is over and no store write is pending, the persisted value is the
\* in-memory one, which is then the value of the latest setStoredValue.
C20_StoreConverges ==
    /\ [][ (loading /\ scannedItems # NullItems
                    /\ Len(writes') <= Len(writes))
              => scannedItems' = scannedItems ]_vars
    /\ [](( ~loading /\ writes = <<>> /\ scannedItems # NullItems)
              => stored = scannedItems)

====
